---------------------------- MODULE Spec2Model ----------------------------
(***************************************************************************)
(* A model of tg-archive's archive synchronisation (tgarchive/sync.py) and *)
(* of its SQLite storage layer (tgarchive/db.py).                          *)
(*                                                                         *)
(* The store is modelled twice: `conn' is what the open sqlite3 connection *)
(* sees (committed rows plus the writes of its open transaction), `disk'   *)
(* is what has been committed.  A process that ends without commit loses   *)
(* the difference.                                                         *)
(*                                                                         *)
(* Eight specifications share the state: Spec (sync runs, with interrupts  *)
(* and rate limits), LiveSpec (runs left to run, with fairness),           *)
(* SpecStores (runs of one process on two databases), SpecItems (runs over *)
(* the kinds of item a source returns), SpecNorm (the pure normalisers of  *)
(* sync.py), SpecDB (the write operations of db.py), SpecOpen (opening the *)
(* file) and SpecRead (its read queries).                                  *)
(*                                                                         *)
(* Python values:  None is <<>> and a present optional value x is <<x>>    *)
(* (Some(x)) for objects, numbers and lists; an absent text is the text    *)
(* NULL.  A timezone-aware datetime is [ts |-> seconds, tz |-> "UTC"]; the *)
(* naive timestamp text SQLite keeps is the number of seconds alone.  A    *)
(* Python variable that holds values of several types holds them tagged:   *)
(* [int |-> k], [list |-> l], [str |-> t], [datetime |-> d].               *)
(***************************************************************************)
EXTENDS Integers, Sequences, FiniteSets, TLC

(***************************************************************************)
(* Bounds of the model.                                                    *)
(***************************************************************************)
MaxMsgId == 4        \* the source holds the messages 1..MaxMsgId
MaxRuns == 2         \* sync() calls explored
MaxDbId == 2         \* primary keys used by the storage-level specification
MaxDate == 2         \* message instants used by the storage-level specification

(***************************************************************************)
(* Optional values.                                                        *)
(***************************************************************************)
None == <<>>
Some(x) == <<x>>
NULL == "NULL"
Truthy(opt) == opt # None
Val(opt) == opt[1]

\* Tagged values and their truth value (`x if x else y').
PyInt(k) == [int |-> k]
PyList(l) == [list |-> l]
PyTruthy(v) ==
    IF "int" \in DOMAIN v THEN v.int # 0 ELSE v.list # <<>>

Max(S) == CHOOSE x \in S : \A y \in S : y <= x

Put(f, k, v) == [x \in (DOMAIN f) \cup {k} |-> IF x = k THEN v ELSE f[x]]

(***************************************************************************)
(* db.py: the namedtuples.                                                 *)
(***************************************************************************)
User(id, username, first_name, last_name, tags, avatar, usertype) ==
    [id |-> id, username |-> username, first_name |-> first_name,
     last_name |-> last_name, tags |-> tags, avatar |-> avatar,
     usertype |-> usertype]

Media(id, type, url, title, description, thumb) ==
    [id |-> id, type |-> type, url |-> url, title |-> title,
     description |-> description, thumb |-> thumb]

ForwardedMessageMetadata(id, originator_label, source_url, date, views, forwarded_count) ==
    [id |-> id, originator_label |-> originator_label,
     source_url |-> source_url, date |-> date, views |-> views,
     forwarded_count |-> forwarded_count]

Message(id, type, date, edit_date, content, reply_to, post_author, user, forwarded_message_metadata, media) ==
    [id |-> id, type |-> type, date |-> date, edit_date |-> edit_date,
     content |-> content, reply_to |-> reply_to, post_author |-> post_author,
     user |-> user, forwarded_message_metadata |-> forwarded_message_metadata,
     media |-> media]

ArchivedChatInfo(id, peer_id, title, peername, desc, archive_date, avatar) ==
    [id |-> id, avatar |-> avatar, title |-> title, peer_id |-> peer_id,
     peername |-> peername, desc |-> desc, archive_date |-> archive_date]

(***************************************************************************)
(* Conversions done on the way into a row.                                 *)
(***************************************************************************)
\* datetime.strftime("%Y-%m-%d %H:%M:%S"): the wall clock of the datetime, its
\* tzinfo dropped.  The source's datetimes are UTC.
Strftime(d) == d.ts

\* " ".join(tags)
RECURSIVE Join(_)
Join(tags) ==
    IF tags = <<>> THEN ""
    ELSE IF Len(tags) = 1 THEN tags[1]
    ELSE tags[1] \o " " \o Join(Tail(tags))

(***************************************************************************)
(* The store: five tables.  archived_chat_info has an AUTOINCREMENT key    *)
(* and is a sequence (row id = position); the other four are functions     *)
(* from the primary key to the row's other columns.                        *)
(***************************************************************************)
EmptyStore ==
    [forwarded_message_metadata |-> <<>>,
     media |-> <<>>,
     archived_chat_info |-> <<>>,
     users |-> <<>>,
     messages |-> <<>>]

UserRow(u) ==
    [username |-> u.username, first_name |-> u.first_name,
     last_name |-> u.last_name, tags |-> Join(Val(u.tags)),
     avatar |-> u.avatar, usertype |-> u.usertype]

MediaRow(md) ==
    [type |-> md.type, url |-> md.url, title |-> md.title,
     description |-> md.description, thumb |-> md.thumb]

FmdRow(fmd) ==
    [originator_label |-> fmd.originator_label, source_url |-> fmd.source_url,
     date |-> IF Truthy(fmd.date) THEN Some(Strftime(Val(fmd.date))) ELSE None,
     views |-> fmd.views, forwarded_count |-> fmd.forwarded_count]

MessageRow(msg) ==
    [type |-> msg.type,
     date |-> Strftime(msg.date),
     edit_date |-> IF Truthy(msg.edit_date)
                   THEN Some(Strftime(Val(msg.edit_date))) ELSE None,
     content |-> msg.content,
     reply_to |-> msg.reply_to,
     post_author |-> msg.post_author,
     user_id |-> msg.user.id,
     forwarded_message_metadata_id |->
         IF Truthy(msg.forwarded_message_metadata)
         THEN Some(Val(msg.forwarded_message_metadata).id) ELSE None,
     media_id |-> IF Truthy(msg.media) THEN Some(Val(msg.media).id) ELSE None]

\* INSERT ... ON CONFLICT (id) DO UPDATE SET <every other column>
insert_user(s, u) ==
    [s EXCEPT !.users = Put(@, u.id, UserRow(u))]

\* " ".join(None) raises TypeError before any SQL runs
insert_user_raises(u) == ~Truthy(u.tags)

\* Faulty variant, for contrast: the media row is not written.
insert_media_dropped(s, md) == s

\* INSERT OR REPLACE
insert_media(s, md) ==
    [s EXCEPT !.media = Put(@, md.id, MediaRow(md))]

\* Faulty variant, for contrast: INSERT OR IGNORE, the row of an id that is present stays.
insert_message_or_ignore(s, msg) ==
    IF msg.id \in DOMAIN s.messages THEN s
    ELSE [s EXCEPT !.messages = Put(@, msg.id, MessageRow(msg))]

\* INSERT OR REPLACE
insert_message(s, msg) ==
    [s EXCEPT !.messages = Put(@, msg.id, MessageRow(msg))]

\* A plain INSERT into a table whose id is the PRIMARY KEY: a row with the
\* same id makes SQLite raise IntegrityError (UNIQUE constraint failed).
insert_forwarded_message_metadata_raises(s, fmd) ==
    fmd.id \in DOMAIN s.forwarded_message_metadata

insert_forwarded_message_metadata(s, fmd) ==
    IF insert_forwarded_message_metadata_raises(s, fmd)
    THEN s
    ELSE [s EXCEPT !.forwarded_message_metadata = Put(@, fmd.id, FmdRow(fmd))]

\* Faulty variant, for contrast: ORDER BY id ASC, the least id.
get_last_message_id_asc(s) ==
    IF DOMAIN s.messages = {}
    THEN <<0, None>>
    ELSE LET id == CHOOSE x \in DOMAIN s.messages :
                       \A y \in DOMAIN s.messages : x <= y
         IN  <<id, Some(s.messages[id].date)>>

\* SELECT id, date FROM messages ORDER BY id DESC LIMIT 1
get_last_message_id(s) ==
    IF DOMAIN s.messages = {}
    THEN <<0, None>>
    ELSE LET id == Max(DOMAIN s.messages)
         IN  <<id, Some(s.messages[id].date)>>

\* SELECT ... FROM archived_chat_info ORDER BY id DESC LIMIT 1
get_last_archived_chat_info(s) ==
    IF s.archived_chat_info = <<>>
    THEN None
    ELSE LET id == Len(s.archived_chat_info)
             r == s.archived_chat_info[id]
         IN  Some(ArchivedChatInfo(id, r.peer_id, r.title, r.peername, r.desc,
                                   r.archive_date, r.avatar))

ChatRow(c, now) ==
    [avatar |-> c.avatar, title |-> c.title, peer_id |-> c.peer_id,
     peername |-> c.peername, desc |-> c.desc,
     archive_date |-> IF Truthy(c.archive_date) THEN Val(c.archive_date)
                      ELSE now]

\* INSERT INTO archived_chat_info (no id given: AUTOINCREMENT appends)
insert_archived_chat_info(s, c, now) ==
    [s EXCEPT !.archived_chat_info = Append(@, ChatRow(c, now))]

\* UPDATE archived_chat_info SET ... WHERE id = ?
update_archived_chat_info(s, c) ==
    IF c.id \in DOMAIN s.archived_chat_info
    THEN [s EXCEPT !.archived_chat_info[c.id] =
             [avatar |-> c.avatar, title |-> c.title, peer_id |-> c.peer_id,
              peername |-> c.peername, desc |-> c.desc,
              archive_date |-> Val(c.archive_date)]]
    ELSE s


\* Faulty variant, for contrast: nothing pending is made durable.
commit_nothing(s) == EmptyStore

\* db.py 418-420
commit(s) == s

(***************************************************************************)
(* State.                                                                  *)
(***************************************************************************)
VARIABLES
    conn,              \* the store as the open connection sees it
    disk,              \* the committed store
    fetched_user_ids,  \* Sync.fetched_user_ids, a class attribute
    pc,                \* where sync() stands
    config,            \* self.config: fetch_limit, group
    ids,               \* sync(ids=...): a list of ids, <<>> when not given
    last_id,           \* the cursor
    last_date,
    n,                 \* messages persisted by this run
    has,
    batch,             \* what the current request returned and is not yet iterated
    m,                 \* the loop variable: the last Message yielded
    group_id,          \* the resolved target
    raw,               \* the source's items, fixed once delivered
    runs,              \* sync() calls so far; also the wall clock
    run,               \* what this run did: requests, writes, how it failed
    profile,           \* the username the source reports for user 7 with this batch
    nocache,           \* the users table, pending and committed, had every
                       \* sender been normalized in full and upserted
    tz,                \* DB.tz, the display timezone
    last,              \* storage-level specification: the last operation
    dbOps,             \* storage-level specification: operations so far
    dbfile,            \* the database file: whether it exists, its tables
    other_db           \* the store of another DB object of the process

vars == <<conn, disk, fetched_user_ids, pc, config, ids, last_id, last_date, n,
          has, batch, m, group_id, raw, runs, run, profile, nocache, tz, last,
          dbOps, dbfile, other_db>>

syncVars == <<fetched_user_ids, pc, config, ids, last_id, last_date, n, has,
              batch, m, group_id, raw, runs, run, profile, nocache>>

\* The greatest message id a store holds, 0 for none.
StoredMax(s) ==
    IF DOMAIN s.messages = {} THEN 0 ELSE Max(DOMAIN s.messages)

NoRun ==
    [start |-> 0, override |-> FALSE, requests |-> <<>>, persisted |-> <<>>,
     error |-> "", exit_code |-> 0, reconciled |-> FALSE,
     disk_at_start |-> EmptyStore, sleeps |-> <<>>]

NoOp == [op |-> "none", arg |-> None, old |-> None, raised |-> FALSE]

\* db.py 10-64: the tables the schema creates, in its order.
schema ==
    <<"archived_chat_info", "messages", "users", "media",
      "forwarded_message_metadata">>

\* No database file yet, and the file of a store whose schema is installed.
NoFile == [isfile |-> FALSE, tables |-> <<>>]
Installed == [isfile |-> TRUE, tables |-> schema]

\* A second database of the process, before anything is written to it.
NoOtherDb ==
    [conn |-> EmptyStore, disk |-> EmptyStore,
     nocache |-> [conn |-> <<>>, disk |-> <<>>]]

\* config["group"] before any call
NoGroup == [id |-> 0, username |-> NULL, kind |-> "none"]

InitSync ==
    /\ fetched_user_ids = {}
    /\ pc = "idle"
    /\ config = [fetch_limit |-> 0, group |-> NoGroup]
    /\ ids = <<>>
    /\ last_id = PyInt(0)
    /\ last_date = None
    /\ n = 0
    /\ has = FALSE
    /\ batch = <<>>
    /\ m = None
    /\ group_id = 0
    /\ raw = <<>>
    /\ runs = 0
    /\ run = NoRun
    /\ profile = NULL
    /\ nocache = [conn |-> <<>>, disk |-> <<>>]

Init ==
    /\ conn = EmptyStore
    /\ disk = EmptyStore
    /\ InitSync
    /\ tz = "UTC"
    /\ last = NoOp
    /\ dbOps = 0
    /\ dbfile = Installed
    /\ other_db = NoOtherDb

(***************************************************************************)
(* The storage-level specification: the write operations of db.py applied  *)
(* in any order to records drawn from small sets.                          *)
(***************************************************************************)
MaxOps == 3          \* operations per behaviour of the storage-level specification

DbIds == 1..MaxDbId
Dates == {[ts |-> t, tz |-> "UTC"] : t \in 1..MaxDate}

UserInputs ==
    {User(i, "alice", "Alice", "A", Some(<<>>), "avatar_1.jpg", "user") :
        i \in DbIds}
    \cup
    {User(i, NULL, "Channel: ", "news", Some(<<"bot", "scam">>), NULL,
          "channel") : i \in DbIds}

MediaInputs ==
    {Media(i, "photo", "1.jpg", "photo.jpg", NULL, "thumb_1.jpg") : i \in DbIds}
    \cup
    {Media(i, "webpage", "https://example.org", "Example", "about", NULL) :
        i \in DbIds}

FmdInputs ==
    {ForwardedMessageMetadata(i, "Alice A id: 7", "https://t.me/alice",
                              Some([ts |-> 1, tz |-> "UTC"]), Some(5), Some(1)) :
        i \in DbIds}
    \cup
    {ForwardedMessageMetadata(i, "someone", NULL, None, None, None) :
        i \in DbIds}

\* Messages: an odd instant gives a plain text message, an even one an edited
\* action message that carries a forward and a media.
MessageInput(i, d, u) ==
    IF d.ts % 2 = 1
    THEN Message(i, "message", d, None, "hello", None, NULL,
                 User(u, NULL, NULL, NULL, None, NULL, NULL), None, None)
    ELSE Message(i, "action", d, Some(d), "Joined", Some(1), "editor",
                 User(u, "alice", "Alice", "A", Some(<<>>), NULL, "user"),
                 Some(ForwardedMessageMetadata(i, "someone", NULL, None, None,
                                               None)),
                 Some(Media(i, "photo", "1.jpg", "photo.jpg", NULL, NULL)))

MessageInputs == {MessageInput(i, d, u) : i \in DbIds, d \in Dates, u \in DbIds}

\* The row a table holds for a key, if any.
Row(table, id) == IF id \in DOMAIN table THEN Some(table[id]) ELSE None

DbStep(op, arg, old, raised, s) ==
    /\ dbfile.isfile
    /\ dbOps < MaxOps
    /\ dbOps' = dbOps + 1
    /\ conn' = s
    /\ last' = [op |-> op, arg |-> arg, old |-> old, raised |-> raised]
    /\ UNCHANGED <<disk, syncVars, tz, dbfile, other_db>>

DbInsertUser ==
    \E u \in UserInputs :
        DbStep("insert_user", u, Row(conn.users, u.id),
               insert_user_raises(u),
               IF insert_user_raises(u) THEN conn ELSE insert_user(conn, u))

DbInsertMedia ==
    \E md \in MediaInputs :
        DbStep("insert_media", md, Row(conn.media, md.id), FALSE,
               insert_media(conn, md))

DbInsertMessage ==
    \E msg \in MessageInputs :
        DbStep("insert_message", msg, Row(conn.messages, msg.id), FALSE,
               insert_message(conn, msg))

DbInsertForwardedMessageMetadata ==
    \E fmd \in FmdInputs :
        DbStep("insert_forwarded_message_metadata", fmd,
               Row(conn.forwarded_message_metadata, fmd.id),
               insert_forwarded_message_metadata_raises(conn, fmd),
               insert_forwarded_message_metadata(conn, fmd))

\* A read: the store stays as it is, the result is kept in `last'.
DbGetLastMessageId ==
    /\ last' = [op |-> "get_last_message_id",
                arg |-> get_last_message_id(conn), old |-> None,
                raised |-> FALSE]
    /\ UNCHANGED <<conn, dbOps, disk, syncVars, tz, dbfile, other_db>>

NextDB ==
    \/ DbInsertUser
    \/ DbInsertMedia
    \/ DbInsertMessage
    \/ DbInsertForwardedMessageMetadata
    \/ DbGetLastMessageId

SpecDB == Init /\ [][NextDB]_vars

(***************************************************************************)
(* Opening the store: DB.__init__, with writes and commits between opens.  *)
(***************************************************************************)
\* Faulty variant, for contrast: the schema is executed at every open.
is_new_always(file) == TRUE

\* db.py 123: is_new = not os.path.isfile(dbfile)
is_new(file) == ~file.isfile

\* CREATE table raises sqlite3.OperationalError for a table that exists.
CreateRaises(tables) ==
    \E i \in DOMAIN schema : \E j \in DOMAIN tables : tables[j] = schema[i]

\* db.py 121-138: DB(dbfile, tz).  Connecting creates the file; the schema is
\* executed for a file that was not there.  The new connection sees the
\* committed store.  `last' keeps the file and the store as they were.
DbOpen ==
    /\ dbOps < MaxOps
    /\ dbOps' = dbOps + 1
    /\ LET raises == is_new(dbfile) /\ CreateRaises(dbfile.tables)
       IN  /\ dbfile' = [isfile |-> TRUE,
                         tables |-> IF is_new(dbfile) /\ ~raises
                                    THEN dbfile.tables \o schema
                                    ELSE dbfile.tables]
           /\ last' = [op |-> "open", arg |-> Some(dbfile),
                       old |-> Some(disk), raised |-> raises]
    /\ conn' = disk
    /\ tz' \in {"UTC", "East"}
    /\ UNCHANGED <<disk, syncVars, other_db>>

\* db.py 418-420: DB.commit
DbCommit ==
    /\ dbfile.isfile
    /\ disk' = commit(conn)
    /\ last' = [op |-> "commit", arg |-> None, old |-> None, raised |-> FALSE]
    /\ UNCHANGED <<conn, dbOps, syncVars, tz, dbfile, other_db>>

InitOpen ==
    /\ conn = EmptyStore
    /\ disk = EmptyStore
    /\ InitSync
    /\ tz = "UTC"
    /\ last = NoOp
    /\ dbOps = 0
    /\ dbfile = NoFile
    /\ other_db = NoOtherDb

NextOpen ==
    \/ DbOpen
    \/ DbInsertUser
    \/ DbInsertMessage
    \/ DbCommit

SpecOpen == InitOpen /\ [][NextOpen]_vars


(***************************************************************************)
(* The source (the Telegram client) and the normalizer of sync.py.         *)
(***************************************************************************)
BatchSize == 3       \* config["fetch_batch_size"]
FetchCap == 2        \* the positive config["fetch_limit"] explored
CommitEvery == 2     \* sync.py commits when n % 300 == 0; scaled down to 2
ChannelIdOffset == 1000000000  \* sync.py: 1000000000000, scaled to TLC's integers

SourceIds == 1..MaxMsgId

\* An entity as the client delivers it with a message: telethon's User, Chat,
\* Channel or ChannelForbidden.  flags holds those of bot, scam, fake and
\* deleted that are set; photo is what the download of the profile photo
\* comes to: "ok", "none" (no photo) or "fails" (the download raises).
Entity(kind, id, username, first_name, last_name, title, flags, photo) ==
    [id |-> id, username |-> username, first_name |-> first_name,
     last_name |-> last_name, title |-> title, kind |-> kind,
     flags |-> flags, photo |-> photo]

\* msg.forward: who the message was forwarded from.
Forward(sender, chat, from_name, channel_post) ==
    [sender |-> sender, chat |-> chat, from_name |-> from_name,
     channel_post |-> channel_post]

\* A forward of a user who hides the account: only a name comes with it.
HiddenForward == Forward(None, None, "someone", None)

\* msg.media of a poll: the question, the answers' texts and, once votes are
\* tallied, the results (voters and correct per answer, and total_voters).
Poll(question, answers, results) ==
    [question |-> question, answers |-> answers, results |-> results]
PollResults(results, total_voters) ==
    [results |-> results, total_voters |-> total_voters]
PollAnswerVoters(voters, correct) == [voters |-> voters, correct |-> correct]

UntalliedPoll == Poll("Lunch?", <<"yes", "no">>, None)
TalliedPoll ==
    Poll("Lunch?", <<"yes", "no">>,
         Some(PollResults(<<PollAnswerVoters(3, TRUE),
                            PollAnswerVoters(1, FALSE)>>, 4)))

\* What one raw item can look like: who sent it (m.sender, absent for a post
\* made in the name of the chat), whether m.chat comes with a title, whether
\* it is a forward, and its media: "none", "photo" (the download succeeds),
\* "photo_fails" (the download raises), "poll" (tallied), "poll_untallied".
Senders == {Entity("User", 7, "alice", "First", "Last", NULL, {}, "none"),
            Entity("User", 8, NULL, "First", "Last", NULL, {}, "none")}
RawItem(uid, forward, media) ==
    [media |-> media, sender |-> Some(CHOOSE u \in Senders : u.id = uid),
     chat |-> "titled",
     forward |-> IF forward THEN Some(HiddenForward) ELSE None]
RawItems == {RawItem(7, FALSE, "none"), RawItem(8, TRUE, "photo")}

\* The usernames user 7 can carry.  A response of the client brings the
\* entities of its senders as they are at the time of the request, so that a
\* sender renamed between two requests comes with another username.
Usernames == {"alice", "alice_b"}

\* m.sender of an item delivered with the batch in progress.
Sender(item) ==
    IF item.sender # None /\ Val(item.sender).id = 7
    THEN Some([Val(item.sender) EXCEPT !.username = profile])
    ELSE item.sender

\* The archive targets a configuration can name.
Groups == {[id |-> 1, username |-> "news", kind |-> "Channel"],
           [id |-> 2, username |-> NULL, kind |-> "Chat"]}

\* m.chat of an item: the archived group, with or without a title.
MsgChat(item) ==
    IF item.chat = "absent" THEN None
    ELSE Some(Entity(config.group.kind, config.group.id,
                     config.group.username, NULL, NULL,
                     IF item.chat = "titled" THEN "Group" ELSE NULL, {},
                     "none"))

\* Title, description and avatar of the target as the client reports them.
Metas == {[avatar |-> NULL, title |-> "News", desc |-> "about"],
          [avatar |-> NULL, title |-> "News 2", desc |-> "about"]}

\* sync(ids=...), sync(from_id=...)
IdsArgs == {<<>>, <<1>>, <<2, 3>>}
FromIdArgs == {0, 1}

\* Faulty variant, for contrast: a channel is negated like a chat.
_get_real_user_id_no_offset(entity) ==
    IF entity.kind \in {"Chat", "Channel"} THEN -entity.id ELSE entity.id

\* sync.py 715-725
_get_real_user_id(entity) ==
    IF entity.kind = "Chat" THEN -entity.id
    ELSE IF entity.kind = "Channel" THEN -entity.id - ChannelIdOffset
    ELSE entity.id

\* The date of source message id: message i was posted at instant i.
SourceDate(id) == [ts |-> id, tz |-> "UTC"]

create_empty_user(user_id) ==
    User(user_id, NULL, NULL, NULL, None, NULL, NULL)

\* sync.py 690-699, 611-632: the avatar's file name, or None when the entity
\* has no photo or the download raises (the exception is caught and logged).
_downloadAvatarForUserOrChat(entity) ==
    IF entity.photo = "ok" THEN "avatar_" \o ToString(entity.id) \o ".jpg"
    ELSE NULL

\* The tags of a sender in the order sync.py 374-382 appends them: bot and
\* deleted are read of a User only, scam and fake of what has the attribute.
Tags(u) ==
    SelectSeq(<<"bot", "scam", "fake", "deleted">>,
              LAMBDA t : /\ t \in u.flags
                         /\ t \in {"bot", "deleted"} => u.kind = "User"
                         /\ t \in {"scam", "fake"} =>
                                u.kind \in {"User", "Channel"})

\* _get_user(m.sender, m.chat): the User of a message, or None when there is
\* neither a sender nor a chat with a title.
_get_user(u, chat, cache) ==
    IF u = None
    THEN IF ~(chat # None /\ Val(chat).title # NULL)
         THEN None
         ELSE LET real_chat_id == _get_real_user_id(Val(chat))
              IN  IF real_chat_id \in cache
                  THEN create_empty_user(real_chat_id)
                  ELSE User(real_chat_id, Val(chat).username, Val(chat).title,
                            NULL, Some(<<"group_self">>),
                            _downloadAvatarForUserOrChat(Val(chat)),
                            IF Val(chat).kind = "Channel"
                            THEN "channel/mega_group" ELSE "chat")
    ELSE LET real_user_id == _get_real_user_id(Val(u))
             is_normal_user == Val(u).kind = "User"
             deleted == is_normal_user /\ "deleted" \in Val(u).flags
         IN  IF real_user_id \in cache
             THEN create_empty_user(real_user_id)
             ELSE IF Val(u).kind = "ChannelForbidden"
             THEN User(real_user_id, NULL, Val(u).title, NULL, Some(<<>>),
                       NULL, "channel")
             ELSE IF Val(u).kind = "Channel"
             THEN User(real_user_id, Val(u).username, "Channel: ",
                       Val(u).title, Some(Tags(Val(u))),
                       _downloadAvatarForUserOrChat(Val(u)), "channel")
             ELSE User(real_user_id, Val(u).username,
                       IF deleted THEN "Deleted"
                       ELSE IF is_normal_user THEN Val(u).first_name
                       ELSE NULL,
                       IF deleted THEN "Account"
                       ELSE IF is_normal_user THEN Val(u).last_name
                       ELSE NULL,
                       Some(Tags(Val(u))),
                       _downloadAvatarForUserOrChat(Val(u)), "user")

\* str.strip of f"{first} {second}"; the names carry no outer blanks themselves.
Strip(first, second) ==
    IF first = "" THEN second
    ELSE IF second = "" THEN first
    ELSE first \o " " \o second

\* f"{x}" of a value that may be None
Format(x) == IF x = NULL THEN "None" ELSE x
FormatInt(x) == IF x = None THEN "None" ELSE ToString(Val(x))

_generate_user_label(user) ==
    LET deleted == "deleted" \in user.flags
        titled == user.title # NULL
        first_name == IF titled THEN "Channel: "
                      ELSE IF deleted THEN "Deleted" ELSE user.first_name
        last_name == IF titled THEN user.title
                     ELSE IF deleted THEN "Account" ELSE user.last_name
        name == Strip(IF first_name = NULL THEN "" ELSE first_name,
                      IF last_name = NULL THEN "" ELSE last_name)
        handle == IF user.username # NULL
                  THEN "(@" \o user.username \o ")" ELSE ""
        ident == IF user.id # 0 THEN " id: " \o ToString(user.id) ELSE ""
    IN  name \o handle \o ident

\* sync.py 412-425: three ifs in a row, each overwriting what the one before
\* it set.
originator(fwd) ==
    LET a == [originator_label |-> NULL, source_url |-> NULL]
        b == IF fwd.sender # None
             THEN [originator_label |->
                       _generate_user_label(Val(fwd.sender)),
                   source_url |->
                       "https://t.me/" \o Format(Val(fwd.sender).username)]
             ELSE a
        c == IF fwd.chat # None
             THEN [originator_label |-> _generate_user_label(Val(fwd.chat)),
                   source_url |->
                       "https://t.me/c/" \o ToString(Val(fwd.chat).id)
                           \o "/" \o FormatInt(fwd.channel_post)]
             ELSE b
    IN  IF fwd.from_name # NULL /\ fwd.from_name # ""
        THEN [c EXCEPT !.originator_label = fwd.from_name]
        ELSE c

_get_forwarded_message_metadata(id, item) ==
    IF item.forward = None
    THEN None
    ELSE LET o == originator(Val(item.forward))
         IN  Some(ForwardedMessageMetadata(id, o.originator_label,
                                           o.source_url, Some(SourceDate(id)),
                                           Some(1), Some(0)))

\* json.dumps and json.loads of a list of dicts
JsonDumps(v) == [json |-> v]
JsonLoads(t) == t.json

\* voters / total * 100, as the fraction it is
Percent(voters, total) ==
    IF total > 0 THEN [num |-> voters * 100, den |-> total]
    ELSE [num |-> 0, den |-> 1]

\* sync.py 448-450: options[i] of a result beyond the last answer
_make_poll_raises(poll) ==
    /\ poll.results # None
    /\ Len(Val(poll.results).results) > Len(poll.answers)

\* sync.py 435-458.  An option is made with label, count and correct; percent
\* is set with the other two for the options that have a result.
_make_poll(id, poll) ==
    IF poll.results = None \/ Val(poll.results).results = <<>>
    THEN None
    ELSE LET results == Val(poll.results).results
             total == Val(poll.results).total_voters
             options ==
                 [i \in 1..Len(poll.answers) |->
                     IF i <= Len(results)
                     THEN [correct |-> results[i].correct,
                           label |-> poll.answers[i],
                           count |-> results[i].voters,
                           percent |-> Percent(results[i].voters, total)]
                     ELSE [correct |-> FALSE, label |-> poll.answers[i],
                           count |-> 0]]
         IN  Some(Media(id, "poll", NULL, poll.question, JsonDumps(options),
                        NULL))

\* Faulty variant, for contrast: a failed download still gives a file.
_download_media_succeeds(item) == FALSE

\* sync.py 565-602: the download of a photo or document raises
_download_media_raises(item) == item.media = "photo_fails"

\* sync.py 460-509.  An exception of the download is caught and logged and
\* the function ends without a return: None.
_get_media(id, item) ==
    IF item.media \in {"photo", "photo_fails"}
          /\ ~_download_media_raises(item)
    THEN Some(Media(id, "photo", "1.jpg", "photo.jpg", NULL, "thumb_1.jpg"))
    ELSE None

\* sync.py 220-240: a poll goes to _make_poll, other media to _get_media.
Med(id, item) ==
    IF item.media = "poll" THEN _make_poll(id, TalliedPoll)
    ELSE IF item.media = "poll_untallied" THEN _make_poll(id, UntalliedPoll)
    ELSE _get_media(id, item)

\* _get_messages: one raw item to one Message.  The generator is lazy: the
\* identity cache is read when the item is reached, not when the batch arrives.
Normalize(id, item, cache) ==
    Message(id, "message", SourceDate(id), None, "text", None, NULL,
            _get_user(Sender(item), MsgChat(item), cache),
            _get_forwarded_message_metadata(id, item),
            Med(id, item))

RECURSIVE SeqOfSet(_)
\* The elements of a set of numbers in ascending order.
SeqOfSet(S) ==
    IF S = {} THEN <<>>
    ELSE LET lo == CHOOSE x \in S : \A y \in S : x <= y
         IN  <<lo>> \o SeqOfSet(S \ {lo})

RECURSIVE Existing(_)
\* client.get_messages(ids=[...]): one entry per id asked for, None for an id
\* the chat does not hold; _get_messages skips the None entries.
Existing(idList) ==
    IF idList = <<>> THEN <<>>
    ELSE (IF Head(idList) \in SourceIds THEN <<Head(idList)>> ELSE <<>>)
         \o Existing(Tail(idList))

\* Faulty variant, for contrast: the newest `limit' messages above offset_id.
ClientGetMessages_newest(offset_id, idList) ==
    IF idList # <<>>
    THEN Existing(idList)
    ELSE LET above == SeqOfSet({i \in SourceIds : i > offset_id.int})
         IN  SubSeq(above, IF Len(above) < BatchSize THEN 1
                           ELSE Len(above) - BatchSize + 1, Len(above))

\* client.get_messages(group, offset_id, limit, ids, reverse=True): with ids, the
\* messages asked for; otherwise the oldest `limit' messages above offset_id.
ClientGetMessages(offset_id, idList) ==
    IF idList # <<>>
    THEN Existing(idList)
    ELSE LET above == SeqOfSet({i \in SourceIds : i > offset_id.int})
         IN  SubSeq(above, 1, IF Len(above) < BatchSize THEN Len(above)
                                                          ELSE BatchSize)


(***************************************************************************)
(* Sync.sync, step by step.                                                *)
(***************************************************************************)
Running == pc \in {"resolving", "reconciling", "fetching", "persisting"}

\* Faulty variant, for contrast: exit() without a status.
Fail_exit_zero(error, code) ==
    /\ pc' = "failed"
    /\ run' = [run EXCEPT !.error = error, !.exit_code = 0]

\* exit(code), or an exception that nothing catches: sync() is left.
Fail(error, code) ==
    /\ pc' = "failed"
    /\ run' = [run EXCEPT !.error = error, !.exit_code = code]

\* sync.py 42-58: the call and the choice of the cursor.  A call is made by a
\* fresh process or, after a run that returned, by the same process again.
StartSync ==
    /\ pc \in {"idle", "done"}
    /\ runs < MaxRuns
    /\ \E idsArg \in IdsArgs, fromArg \in FromIdArgs,
          limit \in {0, FetchCap}, group \in Groups :
        /\ config' = [fetch_limit |-> limit, group |-> group]
        /\ ids' = idsArg
        /\ IF idsArg # <<>>
           THEN last_id' = PyList(idsArg) /\ last_date' = None
           ELSE IF fromArg # 0
           THEN last_id' = PyInt(fromArg) /\ last_date' = None
           ELSE LET res == get_last_message_id(conn)
                IN  /\ last_id' = PyInt(res[1])
                    /\ last_date' = IF Truthy(res[2])
                                    THEN Some([str |-> Val(res[2])])
                                    ELSE None
        /\ run' = [NoRun EXCEPT
                     !.override = (idsArg # <<>> \/ fromArg # 0),
                     !.start = StoredMax(disk),
                     !.disk_at_start = disk]
    /\ runs' = runs + 1
    /\ pc' = "resolving"
    /\ n' = 0
    /\ has' = FALSE
    /\ batch' = <<>>
    /\ m' = None
    /\ group_id' = 0
    /\ UNCHANGED <<conn, disk, fetched_user_ids, raw, profile, nocache, tz,
                   last, dbOps, dbfile, other_db>>

\* sync.py 60, 633-663: _get_group_id.  get_entity raises ValueError for a
\* target that does not exist or that the user is no participant of: exit(1).
ResolveTarget ==
    /\ pc = "resolving"
    /\ \E found \in BOOLEAN :
        IF found
        THEN /\ group_id' = config.group.id
             /\ pc' = "reconciling"
             /\ UNCHANGED run
        ELSE /\ Fail("target not found", 1)
             /\ UNCHANGED group_id
    /\ UNCHANGED <<conn, disk, fetched_user_ids, config, ids, last_id,
                   last_date, n, has, batch, m, raw, runs, profile, nocache,
                   tz, last, dbOps, dbfile, other_db>>

\* sync.py 665-688: _get_chat_info at instant now.
_get_chat_info(entity, meta, now) ==
    ArchivedChatInfo(0, _get_real_user_id(entity), meta.title, entity.username,
                     meta.desc, Some(now), meta.avatar)

\* Faulty variant, for contrast: a row is inserted whether or not anything changed.
need_update_always(old, new) == TRUE

need_update(old, new) ==
    \/ ~Truthy(old)
    \/ Val(old).title # new.title
    \/ Val(old).peername # new.peername
    \/ Val(old).desc # new.desc
    \/ Val(old).avatar # new.avatar

\* Faulty variant, for contrast: the peer_id check is left out.
GroupMismatch_unchecked(old, new) == FALSE

\* sync.py 65-68: the archived chat is another one than the configured group.
GroupMismatch(old, new) ==
    Truthy(old) /\ Val(old).peer_id # new.peer_id

\* sync.py 61-100: compare the target with the latest archived chat info, then
\* insert a new row (left to a later commit) or refresh the latest row's
\* archive_date (update_archived_chat_info commits).
Reconcile ==
    /\ pc = "reconciling"
    /\ \E meta \in Metas :
        LET old == get_last_archived_chat_info(conn)
            new == _get_chat_info(config.group, meta, runs)
        IN  IF GroupMismatch(old, new)
            THEN /\ Fail("group mismatch", 1)
                 /\ UNCHANGED <<conn, disk, n, nocache>>
            ELSE /\ IF need_update(old, new)
                    THEN /\ conn' = insert_archived_chat_info(conn, new, runs)
                         /\ UNCHANGED <<disk, nocache>>
                    ELSE LET updated_date_info ==
                                 [Val(old) EXCEPT !.archive_date = Some(runs)]
                             s == update_archived_chat_info(conn,
                                                            updated_date_info)
                         IN  /\ conn' = s
                             /\ disk' = commit(s)
                             /\ nocache' = [nocache EXCEPT !.disk = nocache.conn]
                 /\ n' = 0
                 /\ pc' = "fetching"
                 /\ run' = [run EXCEPT !.reconciled = TRUE,
                                        !.disk_at_start = EmptyStore]
    /\ UNCHANGED <<fetched_user_ids, config, ids, last_id, last_date, has,
                   batch, m, group_id, raw, runs, profile, tz, last, dbOps, dbfile, other_db>>

\* Faulty variant, for contrast: every request starts from the beginning.
OffsetId_zero == IF ids # <<>> THEN last_id ELSE PyInt(0)

\* sync.py 104: offset_id=last_id if last_id else 0
OffsetId == IF PyTruthy(last_id) THEN last_id ELSE PyInt(0)

\* sync.py 101-105, 213-214, 294-308: the next request is answered.  What an
\* item looks like is fixed the first time the source delivers it.
FetchBatch ==
    /\ pc = "fetching"
    /\ LET got == ClientGetMessages(OffsetId, ids)
           fresh == {got[i] : i \in DOMAIN got} \ DOMAIN raw
       IN  /\ batch' = got
           /\ \E items \in [fresh -> RawItems] :
                raw' = [i \in (DOMAIN raw) \cup fresh |->
                           IF i \in DOMAIN raw THEN raw[i] ELSE items[i]]
    /\ profile' \in Usernames
    /\ has' = FALSE
    /\ run' = [run EXCEPT !.requests =
                  Append(@, [ids |-> ids, offset_id |-> OffsetId,
                             at |-> Len(run.persisted)])]
    /\ pc' = "persisting"
    /\ UNCHANGED <<conn, disk, fetched_user_ids, config, ids, last_id,
                   last_date, n, m, group_id, runs, nocache, tz, last, dbOps, dbfile, other_db>>

\* sync.py 294-310, 216: the client raises FloodWaitError.  _fetch_messages
\* logs it and returns None; `for m in messages' in _get_messages then raises
\* TypeError, which nothing catches: the run ends there.
FetchFloodWait ==
    /\ pc = "fetching"
    /\ has' = FALSE
    /\ Fail("flood wait: TypeError", 1)
    /\ UNCHANGED <<conn, disk, fetched_user_ids, config, ids, last_id,
                   last_date, n, batch, m, group_id, raw, runs, profile,
                   nocache, tz, last, dbOps, dbfile, other_db>>

\* Faulty variant, for contrast: fetch_limit is not looked at.
BreakAfter_uncapped(count) == ids # <<>>

\* sync.py 132: the cap is reached, or the request named ids
BreakAfter(count) ==
    (0 < config.fetch_limit /\ config.fetch_limit <= count) \/ ids # <<>>

\* sync.py 103-134: one turn of the for loop.  A Message whose user is None
\* ends the run at `m.user.id' with an AttributeError that nothing catches.
PersistOne ==
    /\ pc = "persisting"
    /\ batch # <<>>
    /\ LET id == Head(batch)
           msg == Normalize(id, raw[id], fetched_user_ids)
           s1 == IF msg.user # None /\ msg.user.id \notin fetched_user_ids
                 THEN insert_user(conn, msg.user) ELSE conn
           s2 == IF Truthy(msg.media) THEN insert_media(s1, Val(msg.media))
                 ELSE s1
           fwd == msg.forwarded_message_metadata
           s3 == IF Truthy(fwd)
                 THEN insert_forwarded_message_metadata(s2, Val(fwd)) ELSE s2
           s4 == insert_message(s3, msg)
           \* the same turn with the identity cache disabled
           full == _get_user(Sender(raw[id]), MsgChat(raw[id]), {})
           users == IF full = None THEN nocache.conn
                    ELSE Put(nocache.conn, full.id, UserRow(full))
       IN  /\ m' = Some([id |-> msg.id, date |-> msg.date])
           /\ IF msg.user = None
              THEN /\ has' = TRUE
                   /\ Fail("AttributeError", 1)
                   /\ UNCHANGED <<conn, disk, fetched_user_ids, last_date, n,
                                  batch, nocache>>
              ELSE /\ fetched_user_ids' = fetched_user_ids \cup {msg.user.id}
                   /\ IF Truthy(fwd)
                         /\ insert_forwarded_message_metadata_raises(s2,
                                                                     Val(fwd))
                      THEN \* sqlite3.IntegrityError leaves sync()
                           /\ conn' = s2
                           /\ nocache' = [nocache EXCEPT !.conn = users]
                           /\ has' = TRUE
                           /\ Fail("IntegrityError", 1)
                           /\ UNCHANGED <<disk, last_date, n, batch>>
                      ELSE /\ conn' = s4
                           /\ last_date' = Some([datetime |-> msg.date])
                           /\ n' = n + 1
                           /\ disk' = IF (n + 1) % CommitEvery = 0
                                      THEN commit(s4) ELSE disk
                           /\ nocache' =
                                  [conn |-> users,
                                   disk |-> IF (n + 1) % CommitEvery = 0
                                            THEN users ELSE nocache.disk]
                           /\ has' = ~BreakAfter(n + 1)
                           /\ batch' = IF BreakAfter(n + 1) THEN <<>>
                                       ELSE Tail(batch)
                           /\ run' = [run EXCEPT !.persisted = Append(@, id)]
                           /\ UNCHANGED pc
    /\ UNCHANGED <<config, ids, last_id, group_id, raw, runs, profile, tz,
                   last, dbOps, dbfile, other_db>>

\* sync.py 136-153: the batch is through.  Commit; after a batch that gave
\* something move the cursor, sleep (time.sleep(fetch_wait): the history
\* notes how many messages the run had persisted and which were committed
\* when it slept) and ask again, otherwise finish.
EndBatch ==
    /\ pc = "persisting"
    /\ batch = <<>>
    /\ LET stored == commit(conn)
       IN  /\ disk' = stored
           /\ IF has
              THEN /\ last_id' = PyInt(Val(m).id)
                   /\ run' = [run EXCEPT !.sleeps =
                                 Append(@, [at |-> Len(run.persisted),
                                            committed |->
                                                DOMAIN stored.messages])]
                   /\ pc' = "fetching"
              ELSE /\ pc' = "done"
                   /\ UNCHANGED <<last_id, run>>
    /\ nocache' = [nocache EXCEPT !.disk = nocache.conn]
    /\ UNCHANGED <<conn, fetched_user_ids, config, ids, last_date, n, has,
                   batch, m, group_id, raw, runs, profile, tz, last, dbOps, dbfile, other_db>>

\* The process ends: the connection's open transaction is lost and so are
\* the class attribute and the locals of sync(); the next sync() is called by
\* a new process.
ProcessEnds ==
    /\ pc' = "idle"
    /\ conn' = disk
    /\ fetched_user_ids' = {}
    /\ config' = [fetch_limit |-> 0, group |-> NoGroup]
    /\ ids' = <<>>
    /\ last_id' = PyInt(0)
    /\ last_date' = None
    /\ n' = 0
    /\ has' = FALSE
    /\ batch' = <<>>
    /\ m' = None
    /\ group_id' = 0
    /\ run' = NoRun
    /\ profile' = NULL
    /\ nocache' = [nocache EXCEPT !.conn = nocache.disk]
    /\ other_db' = [other_db EXCEPT !.conn = other_db.disk,
                                    !.nocache.conn = other_db.nocache.disk]
    /\ UNCHANGED <<disk, raw, runs, tz, last, dbOps, dbfile>>

\* The process is interrupted (killed, KeyboardInterrupt) while sync() runs.
Interrupt ==
    /\ Running
    /\ ProcessEnds

\* The process ends after sync() returned or failed.
NewProcess ==
    /\ pc \in {"done", "failed"}
    /\ ProcessEnds

Next ==
    \/ StartSync
    \/ ResolveTarget
    \/ Reconcile
    \/ FetchBatch
    \/ FetchFloodWait
    \/ PersistOne
    \/ EndBatch
    \/ Interrupt
    \/ NewProcess

Spec == Init /\ [][Next]_vars

\* Runs that are left to run: the process is not interrupted and the source
\* answers every request with a batch.  sync() is sequential code: a step
\* that can be taken is taken.
NextRun ==
    \/ StartSync
    \/ ResolveTarget
    \/ Reconcile
    \/ FetchBatch
    \/ PersistOne
    \/ EndBatch
    \/ NewProcess

\* Each of these steps changes pc or batch.
stepVars == <<pc, batch>>

Fairness ==
    /\ WF_stepVars(ResolveTarget)
    /\ WF_stepVars(Reconcile)
    /\ WF_stepVars(FetchBatch)
    /\ WF_stepVars(PersistOne)
    /\ WF_stepVars(EndBatch)

LiveSpec == Init /\ [][NextRun]_vars /\ Fairness

(***************************************************************************)
(* Runs of one process that writes to two databases.  fetched_user_ids is  *)
(* a class attribute (sync.py 31): `self.fetched_user_ids.add(...)' finds  *)
(* the set on the class and changes it in place, so every Sync object of   *)
(* the process reads and writes the same set.                              *)
(***************************************************************************)
\* sync.py 33-35: Sync(config, session_file, db) with the other database, in
\* between two runs.  The database written to so far stays as it is.
NewSync ==
    /\ pc \in {"idle", "done"}
    /\ conn' = other_db.conn
    /\ disk' = other_db.disk
    /\ nocache' = other_db.nocache
    /\ other_db' = [conn |-> conn, disk |-> disk, nocache |-> nocache]
    /\ UNCHANGED <<fetched_user_ids, pc, config, ids, last_id, last_date, n, has, batch, m,
                   group_id, raw, runs, run, profile, tz, last, dbOps, dbfile>>

\* The process lives on: no interrupt, no request refused.
NextStores ==
    \/ StartSync
    \/ ResolveTarget
    \/ Reconcile
    \/ FetchBatch
    \/ PersistOne
    \/ EndBatch
    \/ NewSync

SpecStores == Init /\ [][NextStores]_vars

(***************************************************************************)
(* The same runs over a source whose first messages are of one of the      *)
(* kinds the normalizer tells apart.                                       *)
(***************************************************************************)
Item(sender, chat, forward, media) ==
    [media |-> media, sender |-> sender, chat |-> chat, forward |-> forward]

\* Senders as _get_user tells them apart: a user whose avatar downloads, one
\* whose avatar download raises, a flagged user, a channel that cannot be
\* accessed, a channel.
Carol == Entity("User", 9, "carol", "Carol", NULL, NULL, {}, "ok")
Dave == Entity("User", 10, "dave", "Dave", "D", NULL, {}, "fails")
Flagged ==
    Entity("User", 11, NULL, "Eve", NULL, NULL, {"bot", "scam", "deleted"},
           "none")
Forbidden == Entity("ChannelForbidden", 3, NULL, NULL, NULL, "Closed", {}, "none")
Linked == Entity("Channel", 4, "linked", NULL, NULL, "Linked", {"fake"}, "fails")

SenderItems ==
    {Item(Some(u), "titled", None, "none") :
        u \in {Carol, Dave, Flagged, Forbidden, Linked}}
    \cup
    \* a post in the name of the chat; no sender and a chat without a title;
    \* neither a sender nor a chat
    {Item(None, chat, None, "none") : chat \in {"titled", "untitled", "absent"}}

MediaItems ==
    {Item(Some(Carol), "titled", None, media) :
        media \in {"photo", "photo_fails", "poll", "poll_untallied"}}

\* The source: the messages 1 and 2 are of one kind of SenderItems or
\* MediaItems, 3 is a forward with a photo, the others are plain.
SourceOf(item) ==
    [i \in SourceIds |->
        IF i <= 2 THEN item
        ELSE IF i = 3 THEN RawItem(8, TRUE, "photo")
        ELSE RawItem(7, FALSE, "none")]

InitItems ==
    /\ conn = EmptyStore
    /\ disk = EmptyStore
    /\ fetched_user_ids = {}
    /\ pc = "idle"
    /\ config = [fetch_limit |-> 0, group |-> NoGroup]
    /\ ids = <<>>
    /\ last_id = PyInt(0)
    /\ last_date = None
    /\ n = 0
    /\ has = FALSE
    /\ batch = <<>>
    /\ m = None
    /\ group_id = 0
    /\ raw \in {SourceOf(item) : item \in SenderItems \cup MediaItems}
    /\ runs = 0
    /\ run = NoRun
    /\ profile = NULL
    /\ nocache = [conn |-> <<>>, disk |-> <<>>]
    /\ tz = "UTC"
    /\ last = NoOp
    /\ dbOps = 0
    /\ dbfile = Installed
    /\ other_db = NoOtherDb

SpecItems == InitItems /\ [][Next]_vars

(***************************************************************************)
(* The read queries of db.py, applied to stores drawn from a small set.    *)
(*                                                                         *)
(* Time is counted in hours.  The calendar is scaled down: a day has       *)
(* HoursPerDay hours, a month DaysPerMonth days; a month is named by its   *)
(* number ("%Y%m"), a day by its number ("%Y-%m-%d").                      *)
(***************************************************************************)
MaxStored == 3       \* message ids 1..MaxStored can be stored
MaxInstant == 5      \* stored dates are the instants 0..MaxInstant
MaxPageSize == 2     \* the page sizes and limits passed are 1..MaxPageSize
HoursPerDay == 2     \* 24, scaled
DaysPerMonth == 2    \* 28 to 31, scaled
DstStart == 4        \* the instant the zone "DST" moves its clock forward

Instants == 0..MaxInstant
StoredIds == 1..MaxStored
PageSizes == 1..MaxPageSize

\* datetime.utcnow(): the queries are made after every stored message.
Now == MaxInstant + 1

\* pytz.timezone(tz): the display timezones explored.
Zones == {"UTC", "East", "DST"}

\* tz.utcoffset at instant t, in hours: the conversion of the UTC instant t
\* to the zone's wall clock adds it.
UtcOffset(zone, t) ==
    IF zone = "UTC" THEN 0
    ELSE IF zone = "East" THEN 1
    ELSE IF t < DstStart THEN 0 ELSE 1

\* db.py 163, 190: self.tz.utcoffset(datetime.utcnow()).total_seconds() / 3600
CurrentOffset(zone) == UtcOffset(zone, Now)

\* SQLite: datetime(date, offset || ' hours')
Shift(t, offset) == t + offset
\* SQLite: strftime('%Y%m', t), strftime('%Y-%m', t)
MonthOf(t) == t \div (HoursPerDay * DaysPerMonth)
\* SQLite: strftime('%Y-%m-%d 00:00:00', t)
DayOf(t) == t \div HoursPerDay

Months == 0..MonthOf(Now + 1)

\* db.py 113-114: math.ceil(n / multiple)
_page(n_, multiple) == (n_ + multiple - 1) \div multiple

\* db.py 108, 110
Month(date, slug, label, count) ==
    [date |-> date, label |-> label, count |-> count, slug |-> slug]

Day(date, slug, label, count, page) ==
    [date |-> date, label |-> label, count |-> count, slug |-> slug,
     page |-> page]

\* The position of x in a sequence without repetitions.
RankIn(seq, x) == CHOOSE k \in DOMAIN seq : seq[k] = x

\* The message ids of a store whose date, moved by offset hours, falls into
\* month ym.
InMonth(s, offset, ym) ==
    {id \in DOMAIN s.messages : MonthOf(Shift(s.messages[id].date, offset)) = ym}

\* Faulty variant, for contrast: the months are those of the moved dates, the
\* counts those of the stored dates.
get_timeline_counts_unmoved(s, zone, pick) ==
    LET offset == CurrentOffset(zone)
        yms == {MonthOf(Shift(s.messages[id].date, offset)) :
                    id \in DOMAIN s.messages}
        order == SeqOfSet(yms)
    IN  [k \in DOMAIN order |->
            LET date == Shift(s.messages[pick[order[k]]].date, offset)
            IN  Month(date, MonthOf(date), MonthOf(date),
                      Cardinality(InMonth(s, 0, order[k])))]

\* db.py 158-182.  One row per strftime('%Y-%m') of the moved date, ordered
\* by date.  The timestamp column and ORDER BY date are bare columns of an
\* aggregate query: SQLite evaluates them on one row of the group, which row
\* is not specified; pick names it.
get_timeline(s, zone, pick) ==
    LET offset == CurrentOffset(zone)
        yms == {MonthOf(Shift(s.messages[id].date, offset)) :
                    id \in DOMAIN s.messages}
        order == SeqOfSet(yms)
    IN  [k \in DOMAIN order |->
            LET date == Shift(s.messages[pick[order[k]]].date, offset)
            IN  Month(date, MonthOf(date), MonthOf(date),
                      Cardinality(InMonth(s, offset, order[k])))]

\* The rows a group of get_timeline can be evaluated on.
TimelinePicks(s, zone) ==
    LET offset == CurrentOffset(zone)
        yms == {MonthOf(Shift(s.messages[id].date, offset)) :
                    id \in DOMAIN s.messages}
    IN  {pick \in [yms -> DOMAIN s.messages] :
            \A ym \in yms : pick[ym] \in InMonth(s, offset, ym)}

\* db.py 184-214.  The inner query numbers the month's rows in id order; the
\* outer query groups them by day.  PAGE(rank, ?) is a bare column of the
\* aggregate query: it is evaluated on one row of the group, which row is not
\* specified; pick names it.
get_dayline(s, zone, ym, limit, pick) ==
    LET offset == CurrentOffset(zone)
        ranked == SeqOfSet(InMonth(s, offset, ym))
        dayOf(id) == DayOf(Shift(s.messages[id].date, offset))
        days == SeqOfSet({dayOf(ranked[k]) : k \in DOMAIN ranked})
    IN  [k \in DOMAIN days |->
            Day(days[k], days[k], days[k],
                Cardinality({j \in DOMAIN ranked : dayOf(ranked[j]) = days[k]}),
                _page(RankIn(ranked, pick[days[k]]), limit))]

\* The rows a group of get_dayline can be evaluated on.
DaylinePicks(s, zone, ym) ==
    LET offset == CurrentOffset(zone)
        ids_ == InMonth(s, offset, ym)
        dayOf(id) == DayOf(Shift(s.messages[id].date, offset))
        days == {dayOf(id) : id \in ids_}
    IN  {pick \in [days -> ids_] : \A d \in days : dayOf(pick[d]) = d}

RECURSIVE Reverse(_)
Reverse(seq) ==
    IF seq = <<>> THEN <<>> ELSE Append(Reverse(Tail(seq)), Head(seq))

\* A SELECT without ORDER BY returns its rows in an order SQLite does not
\* specify: a scan of the table by rowid, forwards or (PRAGMA
\* reverse_unordered_selects, or another plan) backwards.
Orders == {"forward", "backward"}

\* Faulty variant, for contrast: a message without the row is left out.
InnerJoin(table, key) ==
    IF key # None /\ Val(key) \in DOMAIN table THEN <<Some(table[Val(key)])>>
    ELSE <<>>

\* LEFT JOIN table ON (table.id = key): the rows of the table with that id,
\* or one row of NULLs (None) when there is none.
LeftJoin(table, key) ==
    IF key # None /\ Val(key) \in DOMAIN table THEN <<Some(table[Val(key)])>>
    ELSE <<None>>

\* db.py 228-240: the rows the SELECT gives for message id.
Joined(s, id) ==
    LET msg == s.messages[id]
        us == LeftJoin(s.users, Some(msg.user_id))
        fs == LeftJoin(s.forwarded_message_metadata,
                       msg.forwarded_message_metadata_id)
        ms == LeftJoin(s.media, msg.media_id)
    IN  IF us = <<>> \/ fs = <<>> \/ ms = <<>> THEN <<>>
        ELSE <<[id |-> id, user |-> us[1], media |-> ms[1], fmd |-> fs[1]]>>

RECURSIVE JoinedAll(_, _)
JoinedAll(s, ids_) ==
    IF ids_ = <<>> THEN <<>>
    ELSE Joined(s, Head(ids_)) \o JoinedAll(s, Tail(ids_))

\* db.py 216-256: the rows fetched.  The month filter compares
\* strftime('%Y%m') of the stored (UTC) date; ORDER BY messages.id LIMIT ? is
\* added only `if limit'.
Select(s, year_month, last_id_, limit, order) ==
    LET hit == {id \in DOMAIN s.messages :
                    /\ id > last_id_
                    /\ Truthy(year_month) =>
                           MonthOf(s.messages[id].date) = Val(year_month)}
        asc == JoinedAll(s, SeqOfSet(hit))
    IN  IF Truthy(limit) /\ Val(limit) # 0
        THEN SubSeq(asc, 1, IF Len(asc) < Val(limit) THEN Len(asc)
                               ELSE Val(limit))
        ELSE IF order = "forward" THEN asc ELSE Reverse(asc)

\* db.py 216-258, the ids of the messages returned.
get_messages(s, year_month, last_id_, limit, order) ==
    LET rows == Select(s, year_month, last_id_, limit, order)
    IN  [k \in DOMAIN rows |-> rows[k].id]

\* The tag lists the stored users carry.
TagLists == {<<>>, <<"bot", "scam">>, <<"group_self">>}

\* str.split(" ") of a column written by " ".join(tags)
Split(text) == CHOOSE tags \in TagLists : Join(tags) = text

\* pytz.utc.localize(d).astimezone(self.tz): the instant, shown in the zone
Localize(d, zone) == [ts |-> d, tz |-> zone]

\* db.py 422-511: one row of the SELECT to a Message.  The columns of a
\* joined table are NULL when the LEFT JOIN found no row.
_make_message(s, r, zone) ==
    LET msg == s.messages[r.id]
        Col(row, name) == IF row = None THEN NULL ELSE Val(row)[name]
        md == IF r.media # None /\ Val(msg.media_id) # 0
              THEN Some(Media(Val(msg.media_id), Val(r.media).type,
                              Val(r.media).url, Val(r.media).title,
                              IF Val(r.media).type = "poll"
                              THEN JsonLoads(Val(r.media).description)
                              ELSE Val(r.media).description,
                              Val(r.media).thumb))
              ELSE None
        fwd_md ==
            IF Truthy(msg.forwarded_message_metadata_id)
                  /\ Val(msg.forwarded_message_metadata_id) # 0
            THEN Some(ForwardedMessageMetadata(
                          Val(msg.forwarded_message_metadata_id),
                          Col(r.fmd, "originator_label"),
                          Col(r.fmd, "source_url"),
                          IF r.fmd # None /\ Truthy(Val(r.fmd).date)
                          THEN Some(Localize(Val(Val(r.fmd).date), zone))
                          ELSE None,
                          IF r.fmd = None THEN None ELSE Val(r.fmd).views,
                          IF r.fmd = None THEN None
                          ELSE Val(r.fmd).forwarded_count))
            ELSE None
        tags == Col(r.user, "tags")
    IN  Message(r.id, msg.type, Localize(msg.date, zone),
                IF Truthy(msg.edit_date)
                THEN Some(Localize(Val(msg.edit_date), zone)) ELSE None,
                msg.content, msg.reply_to, msg.post_author,
                User(msg.user_id, Col(r.user, "username"),
                     Col(r.user, "first_name"), Col(r.user, "last_name"),
                     IF tags # NULL /\ tags # "" THEN Some(Split(tags))
                     ELSE None,
                     Col(r.user, "avatar"), Col(r.user, "usertype")),
                fwd_md, md)

\* db.py 257-258: the Messages get_messages yields
Hydrated(s, year_month, last_id_, limit, order, zone) ==
    LET rows == Select(s, year_month, last_id_, limit, order)
    IN  [k \in DOMAIN rows |-> _make_message(s, rows[k], zone)]

\* db.py 260-272: SELECT COUNT(*) ... WHERE strftime('%Y%m', date) = ?
get_message_count(s, ym) == Cardinality(InMonth(s, 0, ym))

\* The stored messages, ids growing with time.  Of every three the first is
\* a forward with a poll whose user, media and forward rows are stored; the
\* second refers to a media and a forward row that are not there, and to a
\* user without a row; the third has neither media nor forward nor user row.
StoredUser == User(7, "alice", "First", "Last", Some(<<"bot", "scam">>), NULL, "user")

StoredMessage(i, t) ==
    Message(i, "message", [ts |-> t, tz |-> "UTC"], None, "text", None, NULL,
            IF i % 3 = 1 THEN StoredUser ELSE create_empty_user(8),
            IF i % 3 = 0 THEN None
            ELSE Some(ForwardedMessageMetadata(
                          i, "someone", NULL, Some([ts |-> t, tz |-> "UTC"]),
                          Some(1), Some(0))),
            IF i % 3 = 0 THEN None ELSE _make_poll(i, TalliedPoll))

StoreOf(f) ==
    LET full == {i \in DOMAIN f : i % 3 = 1}
    IN  [forwarded_message_metadata |->
             [i \in full |->
                 FmdRow(Val(StoredMessage(i, f[i]).forwarded_message_metadata))],
         media |->
             [i \in full |-> MediaRow(Val(StoredMessage(i, f[i]).media))],
         archived_chat_info |-> <<>>,
         users |-> [u \in {StoredUser.id : i \in full} |-> UserRow(StoredUser)],
         messages |->
             [i \in DOMAIN f |-> MessageRow(StoredMessage(i, f[i]))]]

InitRead ==
    /\ \E S \in SUBSET StoredIds :
         \E f \in [S -> Instants] :
            /\ \A i, j \in S : i < j => f[i] <= f[j]
            /\ conn = StoreOf(f)
    /\ disk = conn
    /\ tz \in Zones
    /\ InitSync
    /\ last = NoOp
    /\ dbOps = 0
    /\ dbfile = Installed
    /\ other_db = NoOtherDb

\* A query: the store stays as it is, the arguments and the result (out) are
\* kept in `last'.
Query(op, arg) ==
    /\ last' = [op |-> op, arg |-> arg, old |-> None, raised |-> FALSE]
    /\ UNCHANGED <<conn, dbOps, disk, syncVars, tz, dbfile, other_db>>

DbGetTimeline ==
    \E pick \in TimelinePicks(conn, tz) :
        Query("get_timeline", [out |-> get_timeline(conn, tz, pick)])

DbGetDayline ==
    \E ym \in Months, limit \in PageSizes :
        \E pick \in DaylinePicks(conn, tz, ym) :
            Query("get_dayline",
                  [year_month |-> ym, limit |-> limit,
                   out |-> get_dayline(conn, tz, ym, limit, pick)])

DbGetMessages ==
    \E year_month \in {None} \cup {Some(ym) : ym \in Months},
       last_id_ \in {0, 1},
       limit \in {None} \cup {Some(l) : l \in PageSizes},
       order \in Orders :
        Query("get_messages",
              [year_month |-> year_month, last_id |-> last_id_,
               limit |-> limit,
               out |-> get_messages(conn, year_month, last_id_, limit, order),
               yielded |-> Hydrated(conn, year_month, last_id_, limit, order,
                                    tz)])

DbGetMessageCount ==
    \E ym \in Months :
        Query("get_message_count",
              [year_month |-> ym, out |-> get_message_count(conn, ym)])

NextRead ==
    \/ DbGetTimeline
    \/ DbGetDayline
    \/ DbGetMessages
    \/ DbGetMessageCount

SpecRead == InitRead /\ [][NextRead]_vars

(***************************************************************************)
(* The functions of the normalizer, applied to inputs drawn from small     *)
(* sets.  The input and the result (out) are kept in `last'.               *)
(***************************************************************************)
MaxAnswers == 2      \* a poll has up to MaxAnswers answers and results

\* Native ids: positive and below the channel offset, up to the last one.
NativeIds == {1, 2, ChannelIdOffset - 1}
Kinds == {"User", "Chat", "Channel"}
Entities ==
    {Entity(k, i, NULL, NULL, NULL, NULL, {}, "none") :
        k \in Kinds, i \in NativeIds}

\* msg.forward: a user (one of them deleted and without a username), a
\* channel and a freeform name, each present or not.
ForwardSenders ==
    {None,
     Some(Entity("User", 7, "alice", "Alice", "A", NULL, {}, "none")),
     Some(Entity("User", 8, NULL, "Bob", NULL, NULL, {"deleted"}, "none"))}
ForwardChats ==
    {None, Some(Entity("Channel", 1, "news", NULL, NULL, "News", {}, "none"))}
ForwardNames == {NULL, "Hidden Name"}
Forwards ==
    {Forward(u, c, name, post) :
        u \in ForwardSenders, c \in ForwardChats, name \in ForwardNames,
        post \in {None, Some(5)}}

\* Polls: up to MaxAnswers answers; no results, or up to MaxAnswers of them.
VoterCounts == {0, 1, 3}
TotalVoters == {0, 4}
Answers(k) == [i \in 1..k |-> "answer " \o ToString(i)]
ResultLists ==
    UNION {[1..k -> {PollAnswerVoters(v, c) :
                        v \in VoterCounts, c \in BOOLEAN}] :
              k \in 0..MaxAnswers}
Polls ==
    {Poll("Lunch?", Answers(k), None) : k \in 0..MaxAnswers}
    \cup
    {Poll("Lunch?", Answers(k), Some(PollResults(rs, total))) :
        k \in 0..MaxAnswers, rs \in ResultLists, total \in TotalVoters}

GetRealUserId ==
    \E entity \in Entities :
        Query("_get_real_user_id",
              [entity |-> entity, out |-> _get_real_user_id(entity)])

GetForwardedMessageMetadata ==
    \E forward \in {None} \cup {Some(f) : f \in Forwards} :
        Query("_get_forwarded_message_metadata",
              [forward |-> forward,
               out |-> _get_forwarded_message_metadata(
                           1, [forward |-> forward])])

MakePoll ==
    \E poll \in Polls :
        Query("_make_poll",
              [raised |-> _make_poll_raises(poll), poll |-> poll,
               out |-> IF _make_poll_raises(poll) THEN None
                       ELSE _make_poll(1, poll)])

NextNorm ==
    \/ GetRealUserId
    \/ GetForwardedMessageMetadata
    \/ MakePoll

SpecNorm == Init /\ [][NextNorm]_vars


(***************************************************************************)
(* Properties of the storage layer, under SpecDB.                          *)
(***************************************************************************)

\* C2: insert_forwarded_message_metadata called with an id that is already in
\* the store succeeds without error and leaves one row for that id.
C2_DuplicateForwardInsertSucceeds ==
    (last.op = "insert_forwarded_message_metadata" /\ Truthy(last.old))
        => /\ ~last.raised
           /\ last.arg.id \in DOMAIN conn.forwarded_message_metadata

\* The other rows of a table are what they were.
OthersKept(before, after, id) ==
    /\ DOMAIN after = DOMAIN before \cup {id}
    /\ \A k \in DOMAIN before : k # id => after[k] = before[k]

\* C4: insert_user, insert_media and insert_message of a record whose id is
\* present leave one row for that id, holding the field values of the second
\* write, and leave the rows of the other ids as they were.
C4_UpsertKeepsSecondWrite ==
    [][(dbOps' = dbOps + 1 /\ Truthy(last'.old)) =>
        LET a == last'.arg
        IN  /\ last'.op = "insert_user" =>
                /\ ~last'.raised
                /\ OthersKept(conn.users, conn'.users, a.id)
                /\ Cardinality(DOMAIN conn'.users)
                       = Cardinality(DOMAIN conn.users)
                /\ conn'.users[a.id].username = a.username
                /\ conn'.users[a.id].first_name = a.first_name
                /\ conn'.users[a.id].last_name = a.last_name
                /\ conn'.users[a.id].tags = Join(Val(a.tags))
                /\ conn'.users[a.id].avatar = a.avatar
                /\ conn'.users[a.id].usertype = a.usertype
            /\ last'.op = "insert_media" =>
                /\ ~last'.raised
                /\ OthersKept(conn.media, conn'.media, a.id)
                /\ Cardinality(DOMAIN conn'.media)
                       = Cardinality(DOMAIN conn.media)
                /\ conn'.media[a.id].type = a.type
                /\ conn'.media[a.id].url = a.url
                /\ conn'.media[a.id].title = a.title
                /\ conn'.media[a.id].description = a.description
                /\ conn'.media[a.id].thumb = a.thumb
            /\ last'.op = "insert_message" =>
                /\ ~last'.raised
                /\ OthersKept(conn.messages, conn'.messages, a.id)
                /\ Cardinality(DOMAIN conn'.messages)
                       = Cardinality(DOMAIN conn.messages)
                /\ conn'.messages[a.id].type = a.type
                /\ conn'.messages[a.id].date = a.date.ts
                /\ conn'.messages[a.id].edit_date
                       = (IF a.edit_date = None THEN None
                          ELSE Some(Val(a.edit_date).ts))
                /\ conn'.messages[a.id].content = a.content
                /\ conn'.messages[a.id].reply_to = a.reply_to
                /\ conn'.messages[a.id].post_author = a.post_author
                /\ conn'.messages[a.id].user_id = a.user.id
                /\ conn'.messages[a.id].forwarded_message_metadata_id
                       = (IF a.forwarded_message_metadata = None THEN None
                          ELSE Some(Val(a.forwarded_message_metadata).id))
                /\ conn'.messages[a.id].media_id
                       = (IF a.media = None THEN None
                          ELSE Some(Val(a.media).id))
      ]_vars

\* C4's case: a message is written over a row of its id that held other
\* values, next to a row of another id.
C4_Witness ==
    /\ last.op = "insert_message"
    /\ Truthy(last.old)
    /\ Val(last.old) # conn.messages[last.arg.id]
    /\ Cardinality(DOMAIN conn.messages) = 2

\* C5: get_last_message_id returns the greatest message id of the store with
\* the date of that message's row, and (0, None) exactly when no message is
\* stored.
C5_LastMessageId ==
    last.op = "get_last_message_id" =>
        LET r == last.arg
            stored == DOMAIN conn.messages
        IN  /\ (r = <<0, None>>) <=> (stored = {})
            /\ stored # {} =>
                /\ r[1] \in stored
                /\ \A id \in stored : id <= r[1]
                /\ r[2] = Some(conn.messages[r[1]].date)

\* C5's case: two messages with different dates are stored and the read
\* answers with the greater id.
C5_Witness ==
    /\ last.op = "get_last_message_id"
    /\ DOMAIN conn.messages = {1, 2}
    /\ conn.messages[1].date # conn.messages[2].date
    /\ last.arg[1] = 2

(***************************************************************************)
(* Properties of sync(), under Spec.                                       *)
(***************************************************************************)
Chat(s) == s.archived_chat_info

\* C1: a rate-limit signal on a batch request is answered by sleeping and
\* asking again from the same cursor; it never makes the run fail.
C1_RateLimitNeverFailsRun ==
    ~(pc = "failed" /\ run.error = "flood wait: TypeError")

\* C3: delivering messages that are already archived to the persist step
\* again completes without error.
C3_RedeliveryCompletes ==
    ~(pc = "failed" /\ run.error = "IntegrityError")

\* C6: in a run with no id override the first request's offset is the stored
\* maximum message id; each later request's offset is the id of the message
\* persisted last before it, which the previous batch persisted; the offsets
\* strictly increase; nothing at or below the starting cursor is requested or
\* written.
C6_ResumeMonotonic ==
    (~run.override /\ pc # "idle") =>
        LET rq == run.requests
            start == run.start
        IN  /\ rq # <<>> => rq[1].offset_id = PyInt(start)
            /\ \A k \in 2..Len(rq) :
                /\ rq[k].at > rq[k - 1].at
                /\ rq[k].offset_id = PyInt(run.persisted[rq[k].at])
                /\ rq[k].offset_id.int > rq[k - 1].offset_id.int
            /\ \A k \in DOMAIN rq : rq[k].offset_id.int >= start
            /\ \A k \in DOMAIN run.persisted : run.persisted[k] > start
            /\ \A k \in DOMAIN batch : batch[k] > start

\* C6's case: a resumed run (the store held messages) made a second request.
C6_Witness ==
    /\ ~run.override
    /\ run.reconciled
    /\ run.start > 0
    /\ Len(run.requests) >= 2

\* The step of a run that passes metadata reconciliation.
ReconcilePassed == pc = "reconciling" /\ pc' = "fetching"

SameMeta(r1, r2) ==
    /\ r1.title = r2.title
    /\ r1.peername = r2.peername
    /\ r1.desc = r2.desc
    /\ r1.avatar = r2.avatar

C8_PeerIdImmutable ==
    /\ \A i \in DOMAIN Chat(conn) : Chat(conn)[i].peer_id = Chat(conn)[1].peer_id
    /\ \A i \in DOMAIN Chat(disk) : Chat(disk)[i].peer_id = Chat(disk)[1].peer_id

\* C8's case: the store holds a chat-info row and a run aimed at another chat
\* has been turned away.
C8_Witness ==
    /\ pc = "failed"
    /\ run.error = "group mismatch"
    /\ Len(Chat(disk)) >= 1
    /\ Chat(conn) = Chat(disk)

\* C9: a run whose target cannot be resolved, or whose target is not the
\* archived chat, ends with a non-zero exit status before any request and
\* with the store, pending and committed, as it was when the run began.
C9_FatalBeforeAnyWrite ==
    (pc = "failed" /\ run.error \in {"target not found", "group mismatch"}) =>
        /\ run.exit_code # 0
        /\ run.requests = <<>>
        /\ run.persisted = <<>>
        /\ conn = run.disk_at_start
        /\ disk = run.disk_at_start

\* C9's case: a run against a store that holds rows was turned away for a
\* group mismatch.
C9_Witness ==
    /\ pc = "failed"
    /\ run.error = "group mismatch"
    /\ DOMAIN disk.messages # {}

\* C10: when a run begins the identity cache is empty.
C10_CacheEmptyAtRunStart ==
    pc = "resolving" => fetched_user_ids = {}

\* C11: the identity cache is only an optimization: the users table, pending
\* and committed, is at every moment what the same runs and batches give
\* with the cache disabled, every sender normalized in full and upserted.
C11_CacheIsOnlyAnOptimization ==
    /\ conn.users = nocache.conn
    /\ disk.users = nocache.disk

\* C12: over a finite source that answers every request with a batch (oldest
\* first, at most batch-size long, ids above the offset) every run that
\* starts fetching reaches DONE after finitely many requests.
C12_RunReachesDone ==
    \A r \in 1..MaxRuns :
        (runs = r /\ pc = "fetching") ~> (runs = r /\ pc = "done")

\* C19: no commit makes a strict part of a fetched batch durable: while a
\* batch is being persisted the committed store changes only when the batch
\* has no item left.
C19_CommitsWholeBatchesOnly ==
    [][(pc = "persisting" /\ disk' # disk) => batch' = <<>>]_vars

\* C20: a reader on its own connection sees the committed store; in every
\* committed state the media and forwarded-metadata rows a message row
\* refers to are present.
C20_CommittedRowsComplete ==
    \A id \in DOMAIN disk.messages :
        LET r == disk.messages[id]
        IN  /\ Truthy(r.media_id) => Val(r.media_id) \in DOMAIN disk.media
            /\ Truthy(r.forwarded_message_metadata_id) =>
                   Val(r.forwarded_message_metadata_id)
                       \in DOMAIN disk.forwarded_message_metadata

\* C20's case: a sync is in progress with writes that are not committed, and
\* the committed store holds a message with a media and a forward.
C20_Witness ==
    /\ pc = "persisting"
    /\ conn.messages # disk.messages
    /\ \E id \in DOMAIN disk.messages :
          /\ Truthy(disk.messages[id].media_id)
          /\ Truthy(disk.messages[id].forwarded_message_metadata_id)

(***************************************************************************)
(* Properties of the read queries, under SpecRead.                         *)
(***************************************************************************)
RECURSIVE SumCounts(_, _)
\* The sum of the counts of the first k entries.
SumCounts(entries, k) ==
    IF k = 0 THEN 0 ELSE entries[k].count + SumCounts(entries, k - 1)

\* ceil(r / size): the least p with p * size >= r
Ceil(r, size) == CHOOSE p \in 0..r : p * size >= r /\ (p - 1) * size < r

\* The lowest id among the messages of month ym (as get_dayline selects them)
\* that fall on day d.
FirstOfDay(s, zone, ym, d) ==
    LET offset == CurrentOffset(zone)
        onDay == {id \in InMonth(s, offset, ym) :
                     DayOf(Shift(s.messages[id].date, offset)) = d}
    IN  CHOOSE id \in onDay : \A other \in onDay : id <= other

\* C13: for every Day of get_dayline(year, month, page_size), page is
\* ceil(r / page_size), r being the rank, among that month's messages in id
\* order, of the lowest-id message of that day.
C13_PageOfFirstMessageOfDay ==
    last.op = "get_dayline" =>
        LET a == last.arg
            month == SeqOfSet(InMonth(conn, CurrentOffset(tz), a.year_month))
        IN  \A k \in DOMAIN a.out :
                a.out[k].page =
                    Ceil(RankIn(month, FirstOfDay(conn, tz, a.year_month,
                                                  a.out[k].slug)),
                         a.limit)

RECURSIVE PageCursor(_, _, _, _)
\* The id to pass as last_id to get page p of get_messages(year, month) in
\* chunks of size: the last id of page p - 1.
PageCursor(s, ym, size, p) ==
    IF p <= 1 THEN 0
    ELSE LET before == PageCursor(s, ym, size, p - 1)
             prev == get_messages(s, Some(ym), before, Some(size), "forward")
         IN  IF prev = <<>> THEN before ELSE prev[Len(prev)]

MessagePage(s, ym, size, p) ==
    get_messages(s, Some(ym), PageCursor(s, ym, size, p), Some(size), "forward")

\* C14: for every Day d of get_dayline(year, month, page_size), in any display
\* timezone, chunk d.page of get_messages(year, month) paginated in id order
\* in chunks of page_size holds the first message of day d.
C14_PageAgreesWithListing ==
    last.op = "get_dayline" =>
        LET a == last.arg
        IN  \A k \in DOMAIN a.out :
                LET chunk == MessagePage(conn, a.year_month, a.limit,
                                         a.out[k].page)
                IN  FirstOfDay(conn, tz, a.year_month, a.out[k].slug)
                        \in {chunk[j] : j \in DOMAIN chunk}

\* C15: the counts of the entries of get_timeline add up to the number of
\* stored messages.
C15_TimelineCountsAddUp ==
    last.op = "get_timeline" =>
        SumCounts(last.arg.out, Len(last.arg.out))
            = Cardinality(DOMAIN conn.messages)

\* C15's case: three messages in a zone east of UTC, one of them in the last
\* hour of a UTC month, listed in two months.
C15_Witness ==
    /\ last.op = "get_timeline"
    /\ tz = "East"
    /\ Cardinality(DOMAIN conn.messages) = 3
    /\ \E id \in DOMAIN conn.messages :
           conn.messages[id].date = HoursPerDay * DaysPerMonth - 1
    /\ Len(last.arg.out) = 2

\* C16: in any display timezone the counts of the entries of
\* get_dayline(year, month) add up to get_message_count(year, month).
C16_DaylineCountsAddUp ==
    last.op = "get_dayline" =>
        SumCounts(last.arg.out, Len(last.arg.out))
            = get_message_count(conn, last.arg.year_month)

\* C17: get_timeline has one Month for every calendar month of the display
\* timezone that holds a message, in chronological order, every message being
\* counted in the month its own instant falls into on the zone's wall clock.
C17_TimelineBucketsByLocalMonth ==
    last.op = "get_timeline" =>
        LET out == last.arg.out
            localMonth(id) ==
                MonthOf(conn.messages[id].date
                            + UtcOffset(tz, conn.messages[id].date))
            yms == SeqOfSet({localMonth(id) : id \in DOMAIN conn.messages})
        IN  /\ Len(out) = Len(yms)
            /\ \A k \in DOMAIN yms :
                /\ out[k].slug = yms[k]
                /\ out[k].count =
                       Cardinality({id \in DOMAIN conn.messages :
                                        localMonth(id) = yms[k]})

\* C18: get_messages returns only messages with id > after_id (of the given
\* month, when one is given) in strictly ascending id order, with a limit or
\* without; with a limit it returns the limit lowest such ids.
C18_MessagesAscendingAboveAfterId ==
    last.op = "get_messages" =>
        LET a == last.arg
            out == a.out
            match == {id \in DOMAIN conn.messages :
                         /\ id > a.last_id
                         /\ a.year_month # None =>
                                MonthOf(conn.messages[id].date)
                                    = Val(a.year_month)}
            got == {out[k] : k \in DOMAIN out}
        IN  /\ got \subseteq match
            /\ \A j, k \in DOMAIN out : j < k => out[j] < out[k]
            /\ a.limit = None => got = match
            /\ a.limit # None =>
                /\ Len(out) = (IF Cardinality(match) < Val(a.limit)
                               THEN Cardinality(match) ELSE Val(a.limit))
                /\ \A x \in match \ got : \A y \in got : y < x

(***************************************************************************)
(* Properties of opening the store, under SpecOpen.                        *)
(***************************************************************************)

\* C23: opening the store is idempotent: no open raises, and after any
\* number of opens the file holds the five tables of the schema, each once,
\* and the committed rows are the ones it held before the open.
C23_OpenIsIdempotent ==
    /\ dbfile.isfile => dbfile.tables = schema
    /\ last.op = "open" =>
        /\ ~last.raised
        /\ disk = Val(last.old)
        /\ conn = disk

\* C23, witness: a store that was initialized and holds a committed message
\* has been opened again.
C23_Witness ==
    /\ last.op = "open"
    /\ Val(last.arg).isfile
    /\ DOMAIN disk.messages # {}

(***************************************************************************)
(* Properties of the fetch loop, under Spec.                               *)
(***************************************************************************)

\* C24: a sync called with an explicit id request (one id or several) has
\* persisted every message the source returns for that request when the loop
\* ends, and has made no further request.
C24_IdRequestFullyPersisted ==
    (pc = "done" /\ ids # <<>>) =>
        /\ Len(run.requests) = 1
        /\ LET returned == Existing(ids)
           IN  \A k \in DOMAIN returned :
                   \E j \in DOMAIN run.persisted :
                       run.persisted[j] = returned[k]

\* C25: with fetch_limit > 0 a run never persists more than fetch_limit
\* messages and makes no request once it has persisted that many; with
\* fetch_limit = 0 a run is not capped: it ends only when every message of
\* the source above its cursor is stored.
C25_FetchLimitCapsTheRun ==
    /\ config.fetch_limit > 0 =>
        /\ Len(run.persisted) <= config.fetch_limit
        /\ \A k \in DOMAIN run.requests :
               run.requests[k].at < config.fetch_limit
    /\ (config.fetch_limit = 0 /\ pc = "done" /\ ids = <<>>) =>
        \A i \in SourceIds :
            i > run.requests[1].offset_id.int => i \in DOMAIN conn.messages

\* C25, witness: a capped run ended with exactly fetch_limit messages
\* persisted while the source holds more.
C25_Witness ==
    /\ pc = "done"
    /\ config.fetch_limit = FetchCap
    /\ Len(run.persisted) = FetchCap
    /\ StoredMax(conn) < MaxMsgId

\* C26: the run pauses exactly once between a batch that persisted at least
\* one message and the request that follows it, after that batch's commit
\* (every message persisted so far is committed when the pause begins), and
\* does not pause after the batch that ends the loop: an empty batch, the
\* batch that reached the cap, or the batch of an explicit id request.
C26_PauseBetweenBatches ==
    LET reqs == run.requests
        sleeps == run.sleeps
    IN  /\ pc = "fetching" => Len(sleeps) = Len(reqs)
        /\ (pc \in {"persisting", "done"}) => Len(sleeps) = Len(reqs) - 1
        /\ \A k \in DOMAIN sleeps :
             /\ k \in DOMAIN reqs
             /\ sleeps[k].at > reqs[k].at
             /\ (k + 1) \in DOMAIN reqs => reqs[k + 1].at = sleeps[k].at
             /\ \A j \in 1..sleeps[k].at :
                    run.persisted[j] \in sleeps[k].committed
        /\ pc = "done" =>
             \/ Len(run.persisted) = reqs[Len(reqs)].at
             \/ (0 < config.fetch_limit
                    /\ config.fetch_limit <= Len(run.persisted))
             \/ ids # <<>>

\* C26, witness: a run that paused twice (after the batches 1..3 and 4) and
\* ended on the empty third batch.
C26_Witness ==
    /\ pc = "done"
    /\ Len(run.sleeps) = 2
    /\ Len(run.requests) = 3

(***************************************************************************)
(* Properties of the normalization of items, under SpecItems.              *)
(***************************************************************************)

\* What the source delivers as the message last yielded.
Yielded == raw[Val(m).id]

\* The sender (or chat) whose avatar download raises stands behind the
\* message last yielded.
AvatarFails ==
    /\ Yielded.sender # None
    /\ Val(Yielded.sender).photo = "fails"

\* C22: a failure of an optional part does not block ingestion: when the
\* media download raises, the avatar download raises or a poll has no
\* tallied results, the message and its user are stored all the same, media
\* or avatar absent, and the run goes on.
C22_OptionalFailureDoesNotBlock ==
    (/\ m # None
     /\ \/ Yielded.media \in {"photo_fails", "poll_untallied"}
        \/ AvatarFails)
    =>  LET id == Val(m).id
        IN  /\ pc # "failed"
            /\ id \in DOMAIN conn.messages
            /\ conn.messages[id].user_id \in DOMAIN conn.users
            /\ Yielded.media \in {"photo_fails", "poll_untallied"} =>
                   /\ conn.messages[id].media_id = None
                   /\ id \notin DOMAIN conn.media
            /\ AvatarFails =>
                   conn.users[conn.messages[id].user_id].avatar = NULL

\* C22, witness: the photo of message 1 could not be downloaded; the run
\* stored message 1 without media and went on to store message 2.
C22_Witness ==
    /\ raw[1].media = "photo_fails"
    /\ Len(run.persisted) >= 2
    /\ run.persisted[1] = 1
    /\ run.persisted[2] = 2
    /\ conn.messages[1].media_id = None

\* C30: every item the source delivers becomes a Message with an owning user
\* and is stored; no kind of sender or chat (user, flagged user, forbidden
\* channel, group or channel as sender, no sender and a chat without title)
\* makes the run fail.
C30_EveryItemGetsAUser ==
    m # None =>
        /\ _get_user(Sender(Yielded), MsgChat(Yielded), {}) # None
        /\ run.error # "AttributeError"
        /\ run.error = "" =>
               /\ Val(m).id \in DOMAIN conn.messages
               /\ conn.messages[Val(m).id].user_id \in DOMAIN conn.users

\* The source's messages between the run's starting cursor and the greatest
\* id store s holds are all in s.
GapFree(s) ==
    \A i \in SourceIds :
        (run.start < i /\ i <= get_last_message_id(s)[1])
            => i \in DOMAIN s.messages

\* C32: in a run with no id override the committed messages above the run's
\* starting cursor are, at every commit point, a gap-free prefix of the
\* source's messages after that cursor, so that a restart from
\* get_last_message_id after an interruption at any point loses no message.
\* The same holds of the open transaction, which is what a commit at any
\* point of the loop would write.
C32_CommittedPrefixGapFree ==
    (~run.override /\ pc # "idle") =>
        /\ GapFree(disk)
        /\ GapFree(conn)
        /\ get_last_message_id(disk)[1] >= run.start

\* C32, witness: a run that resumed from a store with messages has committed
\* a batch above its starting cursor and paused.
C32_Witness ==
    /\ ~run.override
    /\ pc # "idle"
    /\ run.start > 0
    /\ Len(run.sleeps) > 0
    /\ get_last_message_id(disk)[1] > run.start

(***************************************************************************)
(* Properties of a process with two databases, under SpecStores.           *)
(***************************************************************************)
Referential(s) ==
    \A id \in DOMAIN s.messages : s.messages[id].user_id \in DOMAIN s.users

\* C31: after any sequence of sync runs in one process, runs by Sync objects
\* that write to different stores included, the user_id of every message row
\* refers to a users row of the same store.
C31_UserRowsExist ==
    /\ Referential(conn)
    /\ Referential(disk)
    /\ Referential(other_db.conn)
    /\ Referential(other_db.disk)

(***************************************************************************)
(* Properties of the normalizer's functions, under SpecNorm.               *)
(***************************************************************************)

\* C21: the synthetic id of a chat with native id C is -C, that of a channel
\* with native id K is -K - 10^12 (the channel offset), that of a user is the
\* native id; over positive native ids below the offset no two different
\* entities (of the same kind or of different kinds) get the same synthetic id.
C21_SyntheticIdInjective ==
    last.op = "_get_real_user_id" =>
        LET entity == last.arg.entity
            out == last.arg.out
        IN  /\ entity.kind = "Chat" => out = -entity.id
            /\ entity.kind = "Channel" => out = -entity.id - ChannelIdOffset
            /\ entity.kind = "User" => out = entity.id
            /\ \A other \in Entities :
                   other # entity => _get_real_user_id(other) # out

\* C21, witness: the transform was applied to the channel with the greatest
\* native id below the offset.
C21_Witness ==
    /\ last.op = "_get_real_user_id"
    /\ last.arg.entity.kind = "Channel"
    /\ last.arg.entity.id = ChannelIdOffset - 1

\* C28: the originator of a forward is taken by preference: the forwarding
\* user's label and profile URL when a user is present; otherwise the
\* forwarding chat's label and channel-post URL; the freeform name only when
\* neither a user nor a chat came with the forward.
C28_OriginatorByPreference ==
    (last.op = "_get_forwarded_message_metadata" /\ last.arg.forward # None)
    =>  LET forward == Val(last.arg.forward)
            out == Val(last.arg.out)
        IN  IF forward.sender # None
            THEN /\ out.originator_label
                        = _generate_user_label(Val(forward.sender))
                 /\ out.source_url
                        = "https://t.me/"
                              \o Format(Val(forward.sender).username)
            ELSE IF forward.chat # None
            THEN /\ out.originator_label
                        = _generate_user_label(Val(forward.chat))
                 /\ out.source_url
                        = "https://t.me/c/" \o ToString(Val(forward.chat).id)
                              \o "/" \o FormatInt(forward.channel_post)
            ELSE out.originator_label = forward.from_name

\* C29: for a poll with tallied results the description decodes to one entry
\* per answer, every entry with the four fields label, count, percent and
\* correct, percent being voters / total_voters * 100, or 0 when total_voters
\* is 0 (counts 3 and 1 of 4 voters give 75 and 25), whatever the number of
\* answers and of results.
C29_PollOptionsComplete ==
    (/\ last.op = "_make_poll"
     /\ last.arg.poll.results # None
     /\ Val(last.arg.poll.results).results # <<>>)
    =>  LET poll == last.arg.poll
            results == Val(poll.results).results
            total == Val(poll.results).total_voters
        IN  /\ ~last.arg.raised
            /\ last.arg.out # None
            /\ LET options == JsonLoads(Val(last.arg.out).description)
               IN  /\ Len(options) = Len(poll.answers)
                   /\ \A i \in DOMAIN options :
                        /\ DOMAIN options[i]
                               = {"label", "count", "percent", "correct"}
                        /\ options[i].label = poll.answers[i]
                        /\ i <= Len(results) =>
                             /\ options[i].count = results[i].voters
                             /\ options[i].correct = results[i].correct
                             /\ options[i].percent.num * total
                                    = results[i].voters * 100
                                          * options[i].percent.den
                             /\ total = 0 => options[i].percent.num = 0
                             /\ (results[i].voters = 3 /\ total = 4) =>
                                    options[i].percent.num
                                        = 75 * options[i].percent.den
                             /\ (results[i].voters = 1 /\ total = 4) =>
                                    options[i].percent.num
                                        = 25 * options[i].percent.den

(***************************************************************************)
(* Properties of the hydrated listing, under SpecRead.                     *)
(***************************************************************************)

RECURSIVE Paged(_, _, _)
\* The ids met by asking for pages of `limit' messages, each request passing
\* the last id of the page before as last_id, until a page comes back empty.
Paged(s, after_id, limit) ==
    LET page == get_messages(s, None, after_id, Some(limit), "forward")
    IN  IF page = <<>> THEN <<>>
        ELSE page \o Paged(s, page[Len(page)], limit)

\* How often id occurs in a sequence of ids.
Occurrences(seq, id) == Cardinality({k \in DOMAIN seq : seq[k] = id})

\* C27: without a limit get_messages returns every stored message with
\* id > after_id exactly once, hydrated from its own rows, whether or not
\* its user, media or forward row exists; and paging with a fixed limit,
\* passing the last returned id as after_id, visits every stored message
\* exactly once.
C27_EveryMessageOnce ==
    (last.op = "get_messages" /\ last.arg.year_month = None) =>
        LET a == last.arg
            remaining == {id \in DOMAIN conn.messages : id > a.last_id}
        IN  /\ Len(a.yielded) = Len(a.out)
            /\ \A k \in DOMAIN a.out :
                 /\ a.out[k] \in remaining
                 /\ a.yielded[k].id = a.out[k]
                 /\ a.yielded[k].user.id = conn.messages[a.out[k]].user_id
                 /\ (a.yielded[k].media # None)
                        <=> (a.out[k] \in DOMAIN conn.media
                                /\ conn.messages[a.out[k]].media_id # None)
                 /\ (a.yielded[k].forwarded_message_metadata # None)
                        <=> (conn.messages[a.out[k]]
                                 .forwarded_message_metadata_id # None)
            /\ a.limit = None =>
                 \A id \in remaining : Occurrences(a.out, id) = 1
            /\ a.limit # None =>
                 LET visited == Paged(conn, 0, Val(a.limit))
                 IN  /\ Len(visited) = Cardinality(DOMAIN conn.messages)
                     /\ \A id \in DOMAIN conn.messages :
                            Occurrences(visited, id) = 1

\* C27, witness: an unlimited listing of a store of three messages, one with
\* all its rows, one whose media and forward rows are missing, one without
\* a user row.
C27_Witness ==
    /\ last.op = "get_messages"
    /\ last.arg.year_month = None
    /\ last.arg.limit = None
    /\ last.arg.last_id = 0
    /\ DOMAIN conn.messages = 1..3
    /\ Len(last.arg.out) = 3

=============================================================================
